---- MODULE Spec2Model ----
(***************************************************************************)
(* A model of the DynamoDB single-table design workshop scripts            *)
(* (src/examples/*.py).  Every script is a short program that puts items   *)
(* into a table and queries it.  The state is the two tables the scripts   *)
(* talk to (TABLE, the attendee's personal table, and SHARED_TABLE, the    *)
(* multi-tenant table), plus the local variables of the script that is     *)
(* running.                                                                *)
(*                                                                         *)
(* Strings that take part in a key are sequences of one-character strings, *)
(* so that concatenation, prefixes and the lexicographic order of sort     *)
(* keys are computed and not assumed.                                      *)
(***************************************************************************)
EXTENDS Naturals, Sequences, FiniteSets, TLC

VARIABLES
    tbl,        \* items of the personal table (env TABLE)
    shared,     \* items of the shared table (env SHARED_TABLE)
    script,     \* the script that is running, or "none"
    pc,         \* its position: "idle", "write", "read", "done"
    TENANT,     \* env TENANT_ID / OTHER_TENANT_ID of the running script
    n,          \* loop counter of the sharding write loop
    items,      \* the list `items` of the sharding scripts
    resp,       \* Items of the last query / Item of the last get_item
    shardResp,  \* the response of each per-shard query of the fan-out
    printed,    \* what section3_sharding prints as "first 5"
    outcome,    \* cross-tenant attempt: "none", "succeeded", "denied"
    wrotePK,    \* history: partition keys the running script has put under
    queried,    \* history: partition keys the running script has queried
    prev,       \* history: script, env and tables at the last script exit
    runs,       \* number of script runs so far
    ent,        \* key-codec inputs: a pair of logical entities
    keys        \* key-codec outputs: the pair of (PK, SK) built from ent

vars == <<tbl, shared, script, pc, TENANT, n, items, resp, shardResp, printed,
          outcome, wrotePK, queried, prev, runs, ent, keys>>

-----------------------------------------------------------------------------
(* Bounds of the model *)

\* number of events the section-3 write loop puts (range(120) in the source)
NumEvents == 4
\* number of events the section-4 write loop puts (range(120) in the source)
NumTenantEvents == 1
\* per-shard ceiling of the fan-out query (Limit=50 in the source)
Limit == 2
\* number of merged items that are printed ([:5] in the source)
PrintCount == 2
\* number of script runs against the personal table
MaxRuns == 2
\* number of script runs against the shared table
MaxSharedRuns == 3
\* longest component string handed to the key builders
MaxLen == 1

-----------------------------------------------------------------------------
(* Strings *)

\* The characters the keys use, in code-point order.
CharOrder ==
    << "#", "-",
       "0", "1", "2", "3", "4", "5", "6", "7", "8", "9",
       "A", "B", "C", "D", "E", "F", "G", "H", "I", "J", "K", "L", "M",
       "N", "O", "P", "Q", "R", "S", "T", "U", "V", "W", "X", "Y", "Z",
       "a", "b", "c", "d", "e", "f", "g", "h", "i", "j", "k", "l", "m",
       "n", "o", "p", "q", "r", "s", "t", "u", "v", "w", "x", "y", "z" >>

Ord(c) == CHOOSE i \in DOMAIN CharOrder : CharOrder[i] = c

Min(a, b) == IF a <= b THEN a ELSE b

RECURSIVE StrLessFrom(_, _, _)
\* a < b, given that a and b agree before position i
StrLessFrom(a, b, i) ==
    IF i > Len(a) THEN i <= Len(b)
    ELSE IF i > Len(b) THEN FALSE
    ELSE IF a[i] = b[i] THEN StrLessFrom(a, b, i + 1)
    ELSE Ord(a[i]) < Ord(b[i])

\* a < b in the lexicographic order of code points
StrLess(a, b) == StrLessFrom(a, b, 1)

HasPrefix(s, p) == Len(p) <= Len(s) /\ SubSeq(s, 1, Len(p)) = p

DigitChars == <<"0", "1", "2", "3", "4", "5", "6", "7", "8", "9">>

RECURSIVE Digits(_)
\* str(k) for k >= 0
Digits(k) ==
    IF k < 10 THEN <<DigitChars[k + 1]>>
    ELSE Digits(k \div 10) \o <<DigitChars[(k % 10) + 1]>>

RECURSIVE Zeros(_)
Zeros(k) == IF k = 0 THEN <<>> ELSE <<"0">> \o Zeros(k - 1)

\* f"{k:0<w>d}": str(k) left-padded with zeros to at least w characters
ZeroPad(k, w) ==
    LET d == Digits(k)
    IN  IF Len(d) >= w THEN d ELSE Zeros(w - Len(d)) \o d

-----------------------------------------------------------------------------
(* Key builders *)

Hash == <<"#">>
LitUSER == <<"U", "S", "E", "R">>
LitPROFILE == <<"P", "R", "O", "F", "I", "L", "E">>
LitORDER == <<"O", "R", "D", "E", "R">>
LitEVENT == <<"E", "V", "E", "N", "T">>
LitTENANT == <<"T", "E", "N", "A", "N", "T">>
LitSTATUS == <<"S", "T", "A", "T", "U", "S">>
LitPENDING == <<"P", "E", "N", "D", "I", "N", "G">>
LitSHIPPED == <<"S", "H", "I", "P", "P", "E", "D">>
LitHot == <<"h", "o", "t">>

\* section1_fundamentals.py / section2_single_table_seed.py
USER_PK(u) == LitUSER \o Hash \o u
PROFILE_SK(u) == LitPROFILE \o Hash \o u
ORDER_SK(ymd, oid) == LitORDER \o Hash \o ymd \o Hash \o oid

\* section3_sharding.py
USER_ID == <<"h", "o", "t", "u", "s", "e", "r">>
SHARDS == << <<"S", "0">>, <<"S", "1">>, <<"S", "2">>, <<"S", "3">> >>
\* a partition key that drops the shard suffix
S3_PK_WithoutShard(s) == LitUSER \o Hash \o USER_ID
S3_PK(s) == LitUSER \o Hash \o USER_ID \o Hash \o s
S3_SK(ts, k) == LitEVENT \o Hash \o ZeroPad(ts, 10) \o Hash \o ZeroPad(k, 6)

\* section4_intro_seed.py (TENANT is the script's global)
S4_PK(tenant, uid) == LitTENANT \o Hash \o tenant \o Hash \o LitUSER \o Hash \o uid
SKP(uid) == LitPROFILE \o Hash \o uid
SKO(d, oid) == LitORDER \o Hash \o d \o Hash \o oid
\* an index key that drops the tenant prefix
GSI1PK_WithoutTenant(tenant, status) == LitSTATUS \o Hash \o status
S4_GSI1PK(tenant, status) ==
    LitTENANT \o Hash \o tenant \o Hash \o LitSTATUS \o Hash \o status

\* section4_tenant_sharding.py
S4T_PK(tenant, s) ==
    LitTENANT \o Hash \o tenant \o Hash \o LitUSER \o Hash \o LitHot \o Hash \o s
S4T_SK(t, k) == LitEVENT \o Hash \o ZeroPad(t, 10) \o Hash \o ZeroPad(k, 6)

\* section4_gsi_status_scoped.py
ScopedStatusKey(tenant) ==
    LitTENANT \o Hash \o tenant \o Hash \o LitSTATUS \o Hash \o LitPENDING

-----------------------------------------------------------------------------
(* The table service: put_item, query, get_item, and Python's sorted *)

Range(seq) == {seq[i] : i \in DOMAIN seq}

Reverse(seq) == [i \in 1..Len(seq) |-> seq[Len(seq) + 1 - i]]

Take(seq, k) == SubSeq(seq, 1, Min(k, Len(seq)))

SameKey(i, j) == i.PK = j.PK /\ i.SK = j.SK

\* put_item: the item replaces the item with the same (PK, SK), if any
Put(t, item) == {i \in t : ~SameKey(i, item)} \cup {item}

RECURSIVE PutAll(_, _)
\* the puts of one batch_writer block, in order (the writer buffers them and
\* has sent them all when the block ends; no script reads inside the block)
PutAll(t, its) == IF its = <<>> THEN t ELSE PutAll(Put(t, Head(its)), Tail(its))

RECURSIVE AscendingBySK(_)
\* the items of one partition in ascending sort-key order
AscendingBySK(S) ==
    IF S = {} THEN <<>>
    ELSE LET lo == CHOOSE i \in S : \A j \in S : j = i \/ StrLess(i.SK, j.SK)
         IN  <<lo>> \o AscendingBySK(S \ {lo})

\* a query that ignores ScanIndexForward and reads oldest first
QueryLimitAscending(t, pk, forward, limit) ==
    Take(AscendingBySK({i \in t : i.PK = pk}), limit)

\* query(KeyConditionExpression=Key("PK").eq(pk), ScanIndexForward=forward,
\* Limit=limit): the partition in sort-key order, cut at the ceiling
QueryLimit(t, pk, forward, limit) ==
    LET asc == AscendingBySK({i \in t : i.PK = pk})
    IN  Take(IF forward THEN asc ELSE Reverse(asc), limit)

\* a query that returns the partition in descending sort-key order
QueryDescending(t, pk) == Reverse(AscendingBySK({i \in t : i.PK = pk}))

\* query(KeyConditionExpression=Key("PK").eq(pk)): ascending, no ceiling
Query(t, pk) == AscendingBySK({i \in t : i.PK = pk})

RECURSIVE AscendingByGSI1(_)
\* the items of one index partition in ascending GSI1SK order (items with
\* equal GSI1SK are ordered by their table key)
AscendingByGSI1(S) ==
    IF S = {} THEN <<>>
    ELSE LET Before(i, j) ==
                 \/ StrLess(i.GSI1SK, j.GSI1SK)
                 \/ i.GSI1SK = j.GSI1SK /\ StrLess(i.PK, j.PK)
                 \/ i.GSI1SK = j.GSI1SK /\ i.PK = j.PK /\ StrLess(i.SK, j.SK)
             lo == CHOOSE i \in S : \A j \in S : j = i \/ Before(i, j)
         IN  <<lo>> \o AscendingByGSI1(S \ {lo})

\* the index GSI1 (hash GSI1PK, range GSI1SK) holds the items that carry both
\* index attributes
InGSI1(i) == "GSI1PK" \in DOMAIN i /\ "GSI1SK" \in DOMAIN i

\* query(IndexName=GSI1, KeyConditionExpression=Key("GSI1PK").eq(v))
QueryGSI1(t, v) == AscendingByGSI1({i \in t : InGSI1(i) /\ i.GSI1PK = v})

\* query(IndexName=GSI2, KeyConditionExpression=Key("GSI2PK").eq(v)): the
\* index holds the items that carry GSI2PK
QueryGSI2(t, v) ==
    AscendingBySK({i \in t : "GSI2PK" \in DOMAIN i /\ i.GSI2PK = v})

\* get_item(Key={PK, SK}): resp.get("Item") as a list of zero or one item
GetItem(t, pk, sk) == AscendingBySK({i \in t : i.PK = pk /\ i.SK = sk})

RECURSIVE InsertDesc(_, _)
\* x goes behind every element whose SK is >= its own
InsertDesc(x, sorted) ==
    IF sorted = <<>> THEN <<x>>
    ELSE IF StrLess(Head(sorted).SK, x.SK) THEN <<x>> \o sorted
    ELSE <<Head(sorted)>> \o InsertDesc(x, Tail(sorted))

RECURSIVE SortedDescFrom(_, _)
SortedDescFrom(acc, seq) ==
    IF seq = <<>> THEN acc
    ELSE SortedDescFrom(InsertDesc(Head(seq), acc), Tail(seq))

\* sorted(seq, key=lambda x: x["SK"], reverse=True): stable, so items with
\* equal SK keep the order they have in seq
SortedDesc(seq) == SortedDescFrom(<<>>, seq)

\* one query per partition key: ScanIndexForward=False, Limit=limit
ShardResponses(t, pks, limit) ==
    [k \in DOMAIN pks |-> QueryLimit(t, pks[k], FALSE, limit)]

RECURSIVE Concat(_)
\* items.extend(resp["Items"]) for each response in turn
Concat(seqs) == IF seqs = <<>> THEN <<>> ELSE Head(seqs) \o Concat(Tail(seqs))

FanOut(t, pks, limit) == Concat(ShardResponses(t, pks, limit))

-----------------------------------------------------------------------------
(* State shared by all scripts *)

NoPrev == [script |-> "none", env |-> <<>>, tbl |-> {}, shared |-> {}]

InitScripts ==
    /\ tbl = {}
    /\ shared = {}
    /\ script = "none"
    /\ pc = "idle"
    /\ TENANT = <<>>
    /\ n = 0
    /\ items = <<>>
    /\ resp = <<>>
    /\ shardResp = <<>>
    /\ printed = <<>>
    /\ outcome = "none"
    /\ wrotePK = {}
    /\ queried = <<>>
    /\ prev = NoPrev
    /\ runs = 0

Init ==
    /\ InitScripts
    /\ ent = <<>>
    /\ keys = <<>>

\* a script can be started when no script is running
CanStart == pc = "idle" /\ runs < MaxRuns

CanStartShared == pc = "idle" /\ runs < MaxSharedRuns

\* the process exits: its locals are gone, the tables stay
Exit ==
    /\ pc = "done"
    /\ pc' = "idle"
    /\ script' = "none"
    /\ prev' = [script |-> script, env |-> TENANT, tbl |-> tbl, shared |-> shared]
    /\ runs' = runs + 1
    /\ TENANT' = <<>>
    /\ n' = 0
    /\ items' = <<>>
    /\ resp' = <<>>
    /\ shardResp' = <<>>
    /\ printed' = <<>>
    /\ outcome' = "none"
    /\ wrotePK' = {}
    /\ queried' = <<>>
    /\ UNCHANGED <<tbl, shared, ent, keys>>

-----------------------------------------------------------------------------
(* section1_fundamentals.py *)

U123 == <<"u", "1", "2", "3">>

S1_Items ==
    << [PK |-> USER_PK(U123), SK |-> PROFILE_SK(U123),
        type |-> "USER", name |-> "Ada"],
       [PK |-> USER_PK(U123),
        SK |-> ORDER_SK(<<"2", "0", "2", "5", "0", "9", "2", "7">>, <<"o", "1">>),
        type |-> "ORDER", status |-> "PENDING"],
       [PK |-> USER_PK(U123),
        SK |-> ORDER_SK(<<"2", "0", "2", "5", "0", "9", "2", "8">>, <<"o", "2">>),
        type |-> "ORDER", status |-> "SHIPPED"] >>

\* seed three items under one PK, then query that partition (the closing
\* scan only prints)
S1_Fundamentals ==
    /\ CanStart
    /\ script' = "section1_fundamentals"
    /\ tbl' = PutAll(tbl, S1_Items)
    /\ resp' = Query(tbl', USER_PK(U123))
    /\ wrotePK' = {i.PK : i \in Range(S1_Items)}
    /\ queried' = <<USER_PK(U123)>>
    /\ pc' = "done"
    /\ UNCHANGED <<shared, TENANT, n, items, shardResp, printed, outcome, prev,
                   runs, ent, keys>>

-----------------------------------------------------------------------------
(* section2_single_table_seed.py *)

U200 == <<"u", "2", "0", "0">>
D20250925 == <<"2", "0", "2", "5", "0", "9", "2", "5">>
D20250926 == <<"2", "0", "2", "5", "0", "9", "2", "6">>
D20250928 == <<"2", "0", "2", "5", "0", "9", "2", "8">>
D20250929 == <<"2", "0", "2", "5", "0", "9", "2", "9">>
O100 == <<"o", "1", "0", "0">>
O101 == <<"o", "1", "0", "1">>
O102 == <<"o", "1", "0", "2">>

PK_USER(uid) == LitUSER \o Hash \o uid
SK_PROFILE(uid) == LitPROFILE \o Hash \o uid
SK_ORDER(ts, oid) == LitORDER \o Hash \o ts \o Hash \o oid

S2_Items ==
    << [PK |-> PK_USER(U200), SK |-> SK_PROFILE(U200),
        type |-> "USER", email |-> "ada@example.org"],
       [PK |-> PK_USER(U200), SK |-> SK_ORDER(D20250925, O100),
        type |-> "ORDER", status |-> "PENDING"],
       [PK |-> PK_USER(U200), SK |-> SK_ORDER(D20250926, O101),
        type |-> "ORDER", status |-> "PENDING"],
       [PK |-> PK_USER(U200), SK |-> SK_ORDER(D20250928, O102),
        type |-> "ORDER", status |-> "SHIPPED"] >>

S2_SingleTableSeed ==
    /\ CanStart
    /\ script' = "section2_single_table_seed"
    /\ tbl' = PutAll(tbl, S2_Items)
    /\ wrotePK' = {i.PK : i \in Range(S2_Items)}
    /\ pc' = "done"
    /\ UNCHANGED <<shared, TENANT, n, items, resp, shardResp, printed, outcome,
                   queried, prev, runs, ent, keys>>

-----------------------------------------------------------------------------
(* section2_gsi_sparse.py *)

\* "STATUS#PENDING" / "STATUS#SHIPPED"
StatusKey(status) == LitSTATUS \o Hash \o status

\* the two items the script puts, with their literal keys
S2G_Items ==
    << [PK |-> LitUSER \o Hash \o U200,
        SK |-> LitORDER \o Hash \o D20250928 \o Hash \o O102,
        type |-> "ORDER", status |-> "SHIPPED",
        GSI1PK |-> StatusKey(LitSHIPPED), GSI1SK |-> D20250928 \o Hash \o O102],
       [PK |-> LitUSER \o Hash \o U200,
        SK |-> LitORDER \o Hash \o D20250926 \o Hash \o O101,
        type |-> "ORDER", status |-> "PENDING",
        GSI1PK |-> StatusKey(LitPENDING), GSI1SK |-> D20250926 \o Hash \o O101] >>

\* (the index GSI1_Status is created first when the table lacks it; the
\* service then fills it from the items of the table)
S2_GsiSparse ==
    /\ CanStart
    /\ script' = "section2_gsi_sparse"
    /\ tbl' = Put(Put(tbl, S2G_Items[1]), S2G_Items[2])
    /\ resp' = QueryGSI1(tbl', StatusKey(LitPENDING))
    /\ wrotePK' = {i.PK : i \in Range(S2G_Items)}
    /\ queried' = <<StatusKey(LitPENDING)>>
    /\ pc' = "done"
    /\ UNCHANGED <<shared, TENANT, n, items, shardResp, printed, outcome, prev,
                   runs, ent, keys>>

-----------------------------------------------------------------------------
(* section3_sharding.py *)

S3_ShardKeys == [k \in DOMAIN SHARDS |-> S3_PK(SHARDS[k])]

S3_Event(s, k) ==
    [PK |-> S3_PK(s), SK |-> S3_SK(k, k), type |-> "EVENT",
     payload |-> [n |-> k, shard |-> s]]

S3_Begin ==
    /\ script' = "section3_sharding"
    /\ pc' = "write"
    /\ n' = 0
    /\ items' = <<>>
    /\ UNCHANGED <<tbl, shared, TENANT, resp, shardResp, printed, outcome,
                   wrotePK, queried, prev, runs, ent, keys>>

S3_Start == CanStart /\ S3_Begin

\* one iteration of the write loop: s = random.choice(SHARDS)
S3_Write(s) ==
    /\ script = "section3_sharding"
    /\ pc = "write"
    /\ n < NumEvents
    /\ tbl' = Put(tbl, S3_Event(s, n))
    /\ wrotePK' = wrotePK \cup {S3_PK(s)}
    /\ n' = n + 1
    /\ pc' = IF n + 1 = NumEvents THEN "read" ELSE "write"
    /\ UNCHANGED <<shared, script, TENANT, items, resp, shardResp, printed,
                   outcome, queried, prev, runs, ent, keys>>

\* the fan-out reads, the merge and the print
S3_Read ==
    /\ script = "section3_sharding"
    /\ pc = "read"
    /\ shardResp' = ShardResponses(tbl, S3_ShardKeys, Limit)
    /\ items' = Concat(shardResp')
    /\ printed' = Take(SortedDesc(items'), PrintCount)
    /\ queried' = S3_ShardKeys
    /\ pc' = "done"
    /\ UNCHANGED <<tbl, shared, script, TENANT, n, resp, outcome, wrotePK,
                   prev, runs, ent, keys>>

-----------------------------------------------------------------------------
(* The scripts of sections 1 to 3, run one after another on TABLE *)

Next ==
    \/ S1_Fundamentals
    \/ S2_SingleTableSeed
    \/ S2_GsiSparse
    \/ S3_Start
    \/ \E s \in Range(SHARDS) : S3_Write(s)
    \/ S3_Read
    \/ Exit

Spec == Init /\ [][Next]_vars

-----------------------------------------------------------------------------
(* section4_intro_seed.py *)

T037 == <<"t", "-", "0", "3", "7">>
T999 == <<"t", "-", "9", "9", "9">>

\* values of the environment variable TENANT_ID: the two workshop tenants
\* and an id that holds the key delimiter
Tenants == {T037, T999, T037 \o Hash \o LitUSER}

\* values of TENANT_ID the sharding script is run with
ShardTenants == {T037, T037 \o Hash \o LitUSER}

U1 == <<"u", "1">>

S4_Items(tenant) ==
    << [PK |-> S4_PK(tenant, U1), SK |-> SKP(U1),
        type |-> "USER", email |-> "u1@example.org"],
       [PK |-> S4_PK(tenant, U1), SK |-> SKO(D20250928, <<"o", "1">>),
        type |-> "ORDER", status |-> "PENDING",
        GSI1PK |-> S4_GSI1PK(tenant, LitPENDING),
        GSI1SK |-> D20250928 \o Hash \o <<"o", "1">>],
       [PK |-> S4_PK(tenant, U1), SK |-> SKO(D20250929, <<"o", "2">>),
        type |-> "ORDER", status |-> "SHIPPED",
        GSI1PK |-> S4_GSI1PK(tenant, LitSHIPPED),
        GSI1SK |-> D20250929 \o Hash \o <<"o", "2">>] >>

\* seed the namespace of the tenant, then query the user's partition
S4_IntroSeed(tenant) ==
    /\ CanStartShared
    /\ script' = "section4_intro_seed"
    /\ TENANT' = tenant
    /\ shared' = PutAll(shared, S4_Items(tenant))
    /\ resp' = Query(shared', S4_PK(tenant, U1))
    /\ wrotePK' = {i.PK : i \in Range(S4_Items(tenant))}
    /\ queried' = <<S4_PK(tenant, U1)>>
    /\ pc' = "done"
    /\ UNCHANGED <<tbl, n, items, shardResp, printed, outcome, prev, runs,
                   ent, keys>>

-----------------------------------------------------------------------------
(* section4_tenant_sharding.py *)

S4T_ShardKeys(tenant) == [k \in DOMAIN SHARDS |-> S4T_PK(tenant, SHARDS[k])]

S4T_Event(tenant, s, k) ==
    [PK |-> S4T_PK(tenant, s), SK |-> S4T_SK(k, k), type |-> "EVENT",
     payload |-> [n |-> k, shard |-> s]]

S4T_Begin(tenant) ==
    /\ script' = "section4_tenant_sharding"
    /\ TENANT' = tenant
    /\ pc' = "write"
    /\ n' = 0
    /\ items' = <<>>
    /\ UNCHANGED <<tbl, shared, resp, shardResp, printed, outcome, wrotePK,
                   queried, prev, runs, ent, keys>>

S4T_Start(tenant) == CanStartShared /\ S4T_Begin(tenant)

\* one iteration of the write loop: s = random.choice(SHARDS)
S4T_Write(s) ==
    /\ script = "section4_tenant_sharding"
    /\ pc = "write"
    /\ n < NumTenantEvents
    /\ shared' = Put(shared, S4T_Event(TENANT, s, n))
    /\ wrotePK' = wrotePK \cup {S4T_PK(TENANT, s)}
    /\ n' = n + 1
    /\ pc' = IF n + 1 = NumTenantEvents THEN "read" ELSE "write"
    /\ UNCHANGED <<tbl, script, TENANT, items, resp, shardResp, printed,
                   outcome, queried, prev, runs, ent, keys>>

\* the fan-out reads; the script prints the item counts only
S4T_Read ==
    /\ script = "section4_tenant_sharding"
    /\ pc = "read"
    /\ shardResp' = ShardResponses(shared, S4T_ShardKeys(TENANT), Limit)
    /\ items' = Concat(shardResp')
    /\ queried' = S4T_ShardKeys(TENANT)
    /\ pc' = "done"
    /\ UNCHANGED <<tbl, shared, script, TENANT, n, resp, printed, outcome,
                   wrotePK, prev, runs, ent, keys>>

-----------------------------------------------------------------------------
(* section4_gsi_status_scoped.py, section4_gsi_status_global.py *)

S4_StatusScoped(tenant) ==
    /\ CanStartShared
    /\ script' = "section4_gsi_status_scoped"
    /\ TENANT' = tenant
    /\ resp' = QueryGSI1(shared, ScopedStatusKey(tenant))
    /\ queried' = <<ScopedStatusKey(tenant)>>
    /\ pc' = "done"
    /\ UNCHANGED <<tbl, shared, n, items, shardResp, printed, outcome, wrotePK,
                   prev, runs, ent, keys>>

S4_StatusGlobal ==
    /\ CanStartShared
    /\ script' = "section4_gsi_status_global"
    /\ resp' = QueryGSI2(shared, StatusKey(LitPENDING))
    /\ queried' = <<StatusKey(LitPENDING)>>
    /\ pc' = "done"
    /\ UNCHANGED <<tbl, shared, TENANT, n, items, shardResp, printed, outcome,
                   wrotePK, prev, runs, ent, keys>>

-----------------------------------------------------------------------------
(* section4_cross_tenant_attempt.py *)

\* The script calls get_item on the other tenant's profile key and checks
\* nothing itself.  Whether the call raises ClientError is decided by the
\* access policy of the credentials it runs with, which is no part of the
\* program: both branches of its try/except are outcomes.
S4_CrossTenantAttempt(other, result) ==
    /\ CanStartShared
    /\ script' = "section4_cross_tenant_attempt"
    /\ TENANT' = other
    /\ outcome' = result
    /\ resp' = IF result = "succeeded"
               THEN GetItem(shared, S4_PK(other, U1), SKP(U1))
               ELSE <<>>
    /\ queried' = <<S4_PK(other, U1)>>
    /\ pc' = "done"
    /\ UNCHANGED <<tbl, shared, n, items, shardResp, printed, wrotePK, prev,
                   runs, ent, keys>>

-----------------------------------------------------------------------------
(* The scripts of section 4, run one after another on SHARED_TABLE *)

NextShared ==
    \/ \E t \in Tenants : S4_IntroSeed(t)
    \/ \E t \in ShardTenants : S4T_Start(t)
    \/ \E s \in Range(SHARDS) : S4T_Write(s)
    \/ S4T_Read
    \/ \E t \in Tenants : S4_StatusScoped(t)
    \/ S4_StatusGlobal
    \/ \E r \in {"succeeded", "denied"} : S4_CrossTenantAttempt(T999, r)
    \/ Exit

SpecShared == Init /\ [][NextShared]_vars

-----------------------------------------------------------------------------
(* One run of a sharding script on an empty table *)

NextOneRun ==
    \/ pc = "idle" /\ runs = 0 /\ S3_Begin
    \/ \E t \in ShardTenants : pc = "idle" /\ runs = 0 /\ S4T_Begin(t)
    \/ \E s \in Range(SHARDS) : S3_Write(s)
    \/ S3_Read
    \/ \E s \in Range(SHARDS) : S4T_Write(s)
    \/ S4T_Read
    \/ Exit

SpecOneRun == Init /\ [][NextOneRun]_vars

-----------------------------------------------------------------------------
(* The key builders as pure functions of their semantic inputs *)

KeyChars == {"a", "#"}

\* the strings of at most MaxLen characters; the builders are lambdas over
\* f-strings and take any string, the empty one and the delimiter included
Components == UNION {[1..k -> KeyChars] : k \in 0..MaxLen}

\* logical entities of sections 1 and 2: a user's profile, a user's order
Entities1 ==
    [kind : {"PROFILE"}, uid : Components]
    \cup [kind : {"ORDER"}, uid : Components, ymd : Components, oid : Components]

\* logical entities of section 4: the same, within a tenant
Entities4 ==
    [kind : {"PROFILE"}, tenant : Components, uid : Components]
    \cup [kind : {"ORDER"}, tenant : Components, uid : Components,
          ymd : Components, oid : Components]

\* the (PK, SK) pair the scripts build for an entity
EncodeKey(e) ==
    IF "tenant" \in DOMAIN e
    THEN << S4_PK(e.tenant, e.uid),
            IF e.kind = "PROFILE" THEN SKP(e.uid) ELSE SKO(e.ymd, e.oid) >>
    ELSE << USER_PK(e.uid),
            IF e.kind = "PROFILE" THEN PROFILE_SK(e.uid)
            ELSE ORDER_SK(e.ymd, e.oid) >>

InitKeys ==
    /\ InitScripts
    /\ ent \in (Entities1 \X Entities1) \cup (Entities4 \X Entities4)
    /\ keys = <<>>

BuildKeys ==
    /\ keys = <<>>
    /\ keys' = <<EncodeKey(ent[1]), EncodeKey(ent[2])>>
    /\ UNCHANGED <<tbl, shared, script, pc, TENANT, n, items, resp, shardResp,
                   printed, outcome, wrotePK, queried, prev, runs, ent>>

NextKeys == BuildKeys

SpecKeys == InitKeys /\ [][NextKeys]_vars

-----------------------------------------------------------------------------
(* Properties *)

\* non-increasing sort keys
IsDescending(seq) ==
    \A i \in 1..(Len(seq) - 1) : ~StrLess(seq[i].SK, seq[i + 1].SK)

\* strictly increasing sort keys
IsAscending(seq) ==
    \A i \in 1..(Len(seq) - 1) : StrLess(seq[i].SK, seq[i + 1].SK)

\* the orders in which the four shard keys can be queried
ShardOrders ==
    {[k \in DOMAIN SHARDS |-> S3_ShardKeys[p[k]]] :
        p \in {q \in [DOMAIN SHARDS -> DOMAIN SHARDS] :
                  \A a, b \in DOMAIN SHARDS : q[a] = q[b] => a = b}}

S3_Done == script = "section3_sharding" /\ pc = "done"

\* C1: when section3_sharding has read the shards, every per-shard response
\* is sorted descending by SK, the merged list sorted(items, key=SK,
\* reverse=True) is descending, holds exactly the items the four queries
\* returned, and is the same list for every order of querying the shards.
C1_MergeIndependentOfShardOrder ==
    S3_Done =>
        LET merged == SortedDesc(items)
        IN  /\ \A k \in DOMAIN shardResp : IsDescending(shardResp[k])
            /\ IsDescending(merged)
            /\ Len(merged) = Len(items)
            /\ Range(merged) = UNION {Range(shardResp[k]) : k \in DOMAIN shardResp}
            /\ \A order \in ShardOrders :
                   SortedDesc(FanOut(tbl, order, Limit)) = merged

\* C2: shard assignment is deterministic: whatever runs of the write path
\* have happened, one event (one SK) lies under one partition key only.
C2_SameEventSameShard ==
    \A i, j \in tbl :
        (i.type = "EVENT" /\ j.type = "EVENT" /\ i.SK = j.SK) => i.PK = j.PK

\* C3: the read phase of a sharding script queries exactly 4 pairwise
\* distinct partition keys, and every partition key the write phase has put
\* an event under, and every partition key of the table it wrote, is one of
\* them.
C3_ShardCoverage ==
    /\ pc = "done" =>
          /\ Len(queried) = 4
          /\ Cardinality(Range(queried)) = 4
          /\ wrotePK \subseteq Range(queried)
          /\ {i.PK : i \in tbl \cup shared} \subseteq Range(queried)
    /\ pc \in {"write", "read"} =>
          wrotePK \subseteq
              Range(S3_ShardKeys) \cup UNION {Range(S4T_ShardKeys(t)) : t \in Tenants}

\* C3 witness: a finished run that wrote under three or more shards
C3_Witness == pc = "done" /\ Cardinality(wrotePK) >= 3

\* C4: the get_item on TENANT#t-999#USER#u1 / PROFILE#u1 is rejected: it
\* never completes successfully and never returns an item.
C4_CrossTenantRejected ==
    (script = "section4_cross_tenant_attempt" /\ pc = "done" /\ TENANT = T999)
        => (outcome = "denied" /\ resp = <<>>)

S4_SeedDone(tenant) ==
    script = "section4_intro_seed" /\ pc = "done" /\ TENANT = tenant

\* C5 as stated: after the seed for tenant t-037 the query on
\* TENANT#t-037#USER#u1 returns the profile and the two orders in ascending
\* SK order, the PROFILE item before the ORDER items.
C5_ProfileBeforeOrders ==
    S4_SeedDone(T037) =>
        /\ Range(resp) = Range(S4_Items(T037))
        /\ IsAscending(resp)
        /\ \A i, j \in DOMAIN resp :
               (resp[i].type = "USER" /\ resp[j].type = "ORDER") => i < j

\* C5 amended: after the seed for tenant t-037 the query on
\* TENANT#t-037#USER#u1 returns the profile and the two orders in ascending
\* SK order, which puts the ORDER items before the PROFILE item.
C5_OrdersBeforeProfile ==
    S4_SeedDone(T037) =>
        /\ Range(resp) = Range(S4_Items(T037))
        /\ Len(resp) = 3
        /\ IsAscending(resp)
        /\ \A i, j \in DOMAIN resp :
               (resp[i].type = "ORDER" /\ resp[j].type = "USER") => i < j

\* C5 witness: the seed for t-037 has run and its query returned three items
C5_Witness == S4_SeedDone(T037) /\ Len(resp) = 3 /\ resp[1].type = "ORDER"

TenantPrefix(t) == LitTENANT \o Hash \o t \o Hash

\* C6: every item of the shared table has TENANT#<tenant># at the head of
\* its PK, and at the head of its GSI1PK when it has one, for one and the
\* same tenant; and the tenant-scoped status query for tenant T returns only
\* items whose PK begins with TENANT#T#.
C6_TenantScoped ==
    /\ \A i \in shared :
           \E t \in Tenants :
               /\ HasPrefix(i.PK, TenantPrefix(t))
               /\ "GSI1PK" \in DOMAIN i => HasPrefix(i.GSI1PK, TenantPrefix(t))
    /\ (script = "section4_gsi_status_scoped" /\ pc = "done") =>
           \A i \in Range(resp) : HasPrefix(i.PK, TenantPrefix(TENANT))

\* C6 witness: the scoped query returned an item while the table holds a
\* pending order of another tenant, which it did not return
C6_Witness ==
    /\ script = "section4_gsi_status_scoped"
    /\ pc = "done"
    /\ resp # <<>>
    /\ \E i \in shared :
           InGSI1(i) /\ i.status = "PENDING" /\ i \notin Range(resp)

SeedScripts ==
    {"section2_single_table_seed", "section4_intro_seed",
     "section3_sharding", "section4_tenant_sharding"}

\* C7: when the write phase of a seeding script has just run for the second
\* time in a row, the tables hold the same items as after its first run.
C7_SeedTwiceSameAsOnce ==
    (script \in SeedScripts /\ pc \in {"read", "done"}
        /\ prev.script = script /\ prev.env = TENANT)
        => (tbl = prev.tbl /\ shared = prev.shared)

\* C8: two distinct logical entities never get the same (PK, SK) pair.
C8_KeysNeverCollide ==
    (keys # <<>> /\ ent[1] # ent[2]) => keys[1] # keys[2]

\* C9: the index query on GSI1PK = STATUS#PENDING returns exactly the ORDER
\* items of the table whose status is PENDING.
C9_StatusIndexComplete ==
    (script = "section2_gsi_sparse" /\ pc = "done") =>
        Range(resp) =
            {i \in tbl : i.type = "ORDER" /\ i.status = "PENDING"}

ShardItems(k) == {i \in tbl : i.PK = S3_ShardKeys[k]}

\* C10: on a table that was empty before the run, every shard query returns
\* at most Limit items, the ones of that shard with the largest sort keys,
\* in descending order; and the PrintCount items that are printed are the
\* events with the globally largest sort keys, newest first.
C10_NewestFirst ==
    S3_Done =>
        /\ \A k \in DOMAIN SHARDS :
               /\ Len(shardResp[k]) = Min(Limit, Cardinality(ShardItems(k)))
               /\ Range(shardResp[k]) \subseteq ShardItems(k)
               /\ \A a, b \in DOMAIN shardResp[k] :
                      a < b => StrLess(shardResp[k][b].SK, shardResp[k][a].SK)
               /\ \A i \in ShardItems(k) \ Range(shardResp[k]) :
                      \A r \in Range(shardResp[k]) : StrLess(i.SK, r.SK)
        /\ Len(printed) = PrintCount
        /\ \A i \in 1..PrintCount :
               /\ printed[i].SK = S3_SK(NumEvents - i, NumEvents - i)
               /\ printed[i].payload.n = NumEvents - i

\* C10 witness: a shard holds more events than the ceiling, so its read is cut
C10_Witness ==
    S3_Done /\ \E k \in DOMAIN SHARDS : Cardinality(ShardItems(k)) > Limit

====
